---- MODULE Spec2Model ----
(***************************************************************************)
(* A model of the chat server of src/server.go.                            *)
(*                                                                         *)
(* Every client has three goroutines: Client.Read (the inbound pump),      *)
(* Client.Write (the outbound pump) and the anonymous ingest goroutine of  *)
(* HandleConnections.  One more goroutine, the dispatcher, ranges over     *)
(* server.incoming and runs the commands.  All channels are unbuffered     *)
(* (make(chan T)), so a send is a rendezvous of a sender standing at its   *)
(* send statement with a receiver standing at its receive; a send on a     *)
(* closed channel panics, also when the channel is closed while the sender *)
(* waits, and an unrecovered panic ends the whole process.                 *)
(***************************************************************************)
EXTENDS Naturals, Sequences, FiniteSets, TLC

VARIABLES
    rpc,        \* Client.Read: "none" | "read" | "push" | "closeIn" | "closeOut" | "done"
    rbuf,       \* Client.Read: the local s
    conn,       \* client.conn: "open" | "closed"
    incoming,   \* client.incoming: "open" | "closed"
    outgoing,   \* client.outgoing: "open" | "closed"
    ipc,        \* ingest goroutine: "none" | "recv" | "reply" | "fwd" | "done"
    ibuf,       \* ingest goroutine: the locals msg and cmd
    wpc,        \* Client.Write: "none" | "recv" | "write" | "done"
    wbuf,       \* Client.Write: the local s
    nick,       \* client.nick
    rooms,      \* server.rooms: room name -> room.clients
    dpc,        \* dispatcher: "recv" | "sendErr" | "bcast"
    cur,        \* dispatcher: the loop variable cmd
    dline,      \* dispatcher: the line Broadcast is sending
    bi,         \* dispatcher: position of Broadcast's range loop in room.clients
    fault,      \* <<>> while the process runs, else the panic that ended it
    script,     \* the lines each client's peer is going to send (fixed), or <<>>
    werr,       \* client.writer: whether a write or flush has failed (the error sticks)
    sent,       \* history: the lines Client.Read has read from each connection
    out,        \* history: the lines received from each client.outgoing
    written,    \* history: the lines written to each open connection
    applied,    \* history: the commands the dispatcher has taken, per client
    pre         \* history: rooms, nick and the lengths of out when cur was taken

vars == <<rpc, rbuf, conn, incoming, outgoing, ipc, ibuf, wpc, wbuf, nick, rooms,
          dpc, cur, dline, bi, fault, script, werr, sent, out, written, applied, pre>>

-----------------------------------------------------------------------------
(* Bounds *)

\* The clients that connect under Spec.
SpecClients == {1, 2}

\* Lines read from all connections together under Spec.
MaxLines == 3

\* The lines a peer sends under Spec.
Lines == {"nick bob\n", "join r\n", "msg r hello\n", "what\n"}

\* The scenarios of SpecScn: the lines of clients A, B and C (1, 2 and 3).
\* The first is the end-to-end scenario of the specification; in the second
\* C sets a nickname before it sends its message; in the third a second
\* client sends a line that is no command.
Scenarios ==
    { << <<"nick alice\n", "join lobby\n", "msg lobby hi all\n">>,
         <<"nick bob\n", "join lobby\n">>,
         <<"msg lobby test\n">> >>,
      << <<"nick alice\n", "join lobby\n">>,
         <<"nick bob\n", "join lobby\n">>,
         <<"nick carol\n", "msg lobby test\n">> >>,
      << <<"nick alice\n", "join lobby\n">>,
         <<"lobby hi\n">> >> }

\* The dialogues of SpecDlg.  In the first, A (1) sets a nickname, joins the
\* lobby, and sends a message, a line that is no command, and a second
\* message, while B (2) joins the lobby twice.  In the second a lone client
\* sends a message to a room nobody created, a line that is no command, and
\* a join.  In the third A and B each set a nickname, join the lobby and
\* send a message.
Dialogues ==
    { << <<"nick alice\n", "join lobby\n", "msg lobby one\n", "oops\n", "msg lobby two\n">>,
         <<"join lobby\n", "join lobby\n">> >>,
      << <<"msg r x\n", "oops\n", "join r\n">> >>,
      << <<"nick alice\n", "join lobby\n", "msg lobby one\n">>,
         <<"nick bob\n", "join lobby\n", "msg lobby two\n">> >> }

Clients == DOMAIN rpc

-----------------------------------------------------------------------------
(* Strings *)

Ch(s, i) == SubSeq(s, i, i)

WordChars ==
    {"a","b","c","d","e","f","g","h","i","j","k","l","m",
     "n","o","p","q","r","s","t","u","v","w","x","y","z",
     "A","B","C","D","E","F","G","H","I","J","K","L","M",
     "N","O","P","Q","R","S","T","U","V","W","X","Y","Z",
     "0","1","2","3","4","5","6","7","8","9","_"}

\* \w+ : one or more word characters
IsWord(s) == Len(s) >= 1 /\ \A i \in 1..Len(s) : Ch(s, i) \in WordChars

\* .+ : one or more characters other than a newline
IsText(s) == Len(s) >= 1 /\ \A i \in 1..Len(s) : Ch(s, i) # "\n"

EndsWithNewline(s) == Len(s) >= 1 /\ Ch(s, Len(s)) = "\n"

Min(S) == CHOOSE x \in S : \A y \in S : x <= y

NoMatch == <<>>

\* FindStringSubmatch of  kw (\w+)\n$  : the regexp is not anchored at the
\* left, so the leftmost place where it matches is taken.
WordMatchAt(kw, s, p) ==
    /\ p + Len(kw) <= Len(s) - 1
    /\ SubSeq(s, p, p + Len(kw) - 1) = kw
    /\ IsWord(SubSeq(s, p + Len(kw), Len(s) - 1))
    /\ EndsWithNewline(s)

FindWordSubmatch(kw, s) ==
    LET P == {p \in 1..Len(s) : WordMatchAt(kw, s, p)}
    IN  IF P = {} THEN NoMatch
        ELSE <<SubSeq(s, Min(P), Len(s)), SubSeq(s, Min(P) + Len(kw), Len(s) - 1)>>

nickRegexp(s) == FindWordSubmatch("nick ", s)
joinRegexp(s) == FindWordSubmatch("join ", s)

\* The end of the run of word characters that starts at position p.
WordRunEnd(s, p) ==
    LET E == {q \in p..Len(s) : IsWord(SubSeq(s, p, q))}
    IN  IF E = {} THEN p - 1 ELSE CHOOSE q \in E : \A e \in E : e <= q

\* FindStringSubmatch of  msg (\w+) (.+)\n$
MsgMatchAt(s, p) ==
    LET q == WordRunEnd(s, p + 4)
    IN  /\ p + 3 <= Len(s)
        /\ SubSeq(s, p, p + 3) = "msg "
        /\ q >= p + 4
        /\ q + 2 <= Len(s) - 1
        /\ Ch(s, q + 1) = " "
        /\ IsText(SubSeq(s, q + 2, Len(s) - 1))
        /\ EndsWithNewline(s)

msgRegexp(s) ==
    LET P == {p \in 1..Len(s) : MsgMatchAt(s, p)}
    IN  IF P = {} THEN NoMatch
        ELSE LET p == Min(P)
                 q == WordRunEnd(s, p + 4)
             IN  <<SubSeq(s, p, Len(s)), SubSeq(s, p + 4, q), SubSeq(s, q + 2, Len(s) - 1)>>

Nil == [kind |-> "nil"]

parseCommand(client, msg) ==
    IF nickRegexp(msg) # NoMatch
    THEN [kind |-> "nick", client |-> client, nick |-> nickRegexp(msg)[2]]
    ELSE IF joinRegexp(msg) # NoMatch
    THEN [kind |-> "join", client |-> client, room |-> joinRegexp(msg)[2]]
    ELSE IF msgRegexp(msg) # NoMatch
    THEN [kind |-> "msg", client |-> client, room |-> msgRegexp(msg)[2],
          message |-> msgRegexp(msg)[3]]
    ELSE Nil

\* Every line a peer sends in Spec, in SpecScn or in SpecDlg.
AllLines ==
    Lines \cup UNION {{s[c][i] : i \in 1..Len(s[c])} : <<s, c>> \in {<<s, c>> \in
        (Scenarios \cup Dialogues) \X (1..3) : c \in DOMAIN s}}

\* parseCommand of the lines peers send, worked out once for client 0.
ParseTable == [line \in AllLines |-> parseCommand(0, line)]

\* parseCommand(client, msg), looked up in ParseTable where msg is there.
parseCommandOf(client, msg) ==
    IF msg \in AllLines
    THEN IF ParseTable[msg] = Nil THEN Nil ELSE [ParseTable[msg] EXCEPT !.client = client]
    ELSE parseCommand(client, msg)

ErrNoRoom == "Error: Room doesn't exist\n"
ErrNoNick == "Error: Must set NICK first\n"

\* Mutant of InvalidCmd: the reply does not repeat the line.
InvalidCmd_NoLine(msg) == "Error: Invalid cmd\n"

\* fmt.Sprintf("Error: Invalid cmd: %s", msg)
InvalidCmd(msg) == "Error: Invalid cmd: " \o msg

\* fmt.Sprintf("%s / %s: %s\n", name, from.nick, msg)
msgFmt(name, fromNick, msg) == name \o " / " \o fromNick \o ": " \o msg \o "\n"

-----------------------------------------------------------------------------
(* Construction *)

NoFault == <<>>
NoRooms == <<>>

InitClients(C) ==
    /\ rpc = [c \in C |-> "none"]
    /\ rbuf = [c \in C |-> ""]
    /\ conn = [c \in C |-> "open"]
    /\ incoming = [c \in C |-> "open"]
    /\ outgoing = [c \in C |-> "open"]
    /\ ipc = [c \in C |-> "none"]
    /\ ibuf = [c \in C |-> [msg |-> "", cmd |-> Nil]]
    /\ wpc = [c \in C |-> "none"]
    /\ wbuf = [c \in C |-> ""]
    /\ werr = [c \in C |-> FALSE]
    /\ nick = [c \in C |-> ""]
    /\ sent = [c \in C |-> <<>>]
    /\ out = [c \in C |-> <<>>]
    /\ written = [c \in C |-> <<>>]
    /\ applied = [c \in C |-> <<>>]

InitServer ==
    /\ rooms = NoRooms
    /\ dpc = "recv"
    /\ cur = Nil
    /\ dline = ""
    /\ bi = 0
    /\ fault = NoFault
    /\ pre = [rooms |-> NoRooms, nick |-> nick, out |-> [x \in DOMAIN out |-> 0]]

Init ==
    /\ InitClients(SpecClients)
    /\ InitServer
    /\ script = <<>>

Running == fault = NoFault

-----------------------------------------------------------------------------
(* HandleConnections: the accept loop *)

\* listener.Accept, NewClient (go c.Read(), go c.Write()) and the go func()
\* that starts the client's ingest goroutine.
Accept(c) ==
    /\ Running
    /\ rpc[c] = "none"
    /\ rpc' = [rpc EXCEPT ![c] = "read"]
    /\ wpc' = [wpc EXCEPT ![c] = "recv"]
    /\ ipc' = [ipc EXCEPT ![c] = "recv"]
    /\ UNCHANGED <<rbuf, conn, incoming, outgoing, ibuf, wbuf, nick, rooms, dpc, cur,
                   dline, bi, fault, script, werr, sent, out, written, applied, pre>>

-----------------------------------------------------------------------------
(* Client.Read *)

LinesRead == LET Sum[n \in 0..Cardinality(Clients)] ==
                     IF n = 0 THEN 0 ELSE Sum[n - 1] + Len(sent[n])
             IN  Sum[Cardinality(Clients)]

\* s, err := client.reader.ReadString('\n') with err == nil
ReadString(c, s) ==
    /\ Running
    /\ rpc[c] = "read"
    /\ rbuf' = [rbuf EXCEPT ![c] = s]
    /\ rpc' = [rpc EXCEPT ![c] = "push"]
    /\ sent' = [sent EXCEPT ![c] = Append(@, s)]
    /\ UNCHANGED <<conn, incoming, outgoing, ipc, ibuf, wpc, wbuf, nick, rooms, dpc,
                   cur, dline, bi, fault, script, werr, out, written, applied, pre>>

\* The peer sends any line of Lines.
ReadAny(c) ==
    /\ script = <<>>
    /\ LinesRead < MaxLines
    /\ \E s \in Lines : ReadString(c, s)

\* The peer sends the next line of its script.
ReadScripted(c) ==
    /\ script # <<>>
    /\ Len(sent[c]) < Len(script[c])
    /\ ReadString(c, script[c][Len(sent[c]) + 1])

\* ReadString fails (EOF, reset): client.conn.Close()
ReadFail(c) ==
    /\ Running
    /\ rpc[c] = "read"
    /\ conn' = [conn EXCEPT ![c] = "closed"]
    /\ rpc' = [rpc EXCEPT ![c] = "closeIn"]
    /\ UNCHANGED <<rbuf, incoming, outgoing, ipc, ibuf, wpc, wbuf, nick, rooms, dpc,
                   cur, dline, bi, fault, script, werr, sent, out, written, applied, pre>>

\* close(client.incoming)
CloseIncoming(c) ==
    /\ Running
    /\ rpc[c] = "closeIn"
    /\ incoming' = [incoming EXCEPT ![c] = "closed"]
    /\ rpc' = [rpc EXCEPT ![c] = "closeOut"]
    /\ UNCHANGED <<rbuf, conn, outgoing, ipc, ibuf, wpc, wbuf, nick, rooms, dpc, cur,
                   dline, bi, fault, script, werr, sent, out, written, applied, pre>>

\* close(client.outgoing); return
CloseOutgoing(c) ==
    /\ Running
    /\ rpc[c] = "closeOut"
    /\ outgoing' = [outgoing EXCEPT ![c] = "closed"]
    /\ rpc' = [rpc EXCEPT ![c] = "done"]
    /\ UNCHANGED <<rbuf, conn, incoming, ipc, ibuf, wpc, wbuf, nick, rooms, dpc, cur,
                   dline, bi, fault, script, werr, sent, out, written, applied, pre>>

-----------------------------------------------------------------------------
(* The ingest goroutine of HandleConnections *)

\* client.incoming <- s  meets  msg := range client.incoming ; then
\* cmd := parseCommand(client, msg) and the test cmd == nil
IngestRecv(c) ==
    /\ Running
    /\ rpc[c] = "push"
    /\ ipc[c] = "recv"
    /\ incoming[c] = "open"
    /\ LET cmd == parseCommandOf(c, rbuf[c])
       IN  /\ ibuf' = [ibuf EXCEPT ![c] = [msg |-> rbuf[c], cmd |-> cmd]]
           /\ ipc' = [ipc EXCEPT ![c] = IF cmd = Nil THEN "reply" ELSE "fwd"]
    /\ rpc' = [rpc EXCEPT ![c] = "read"]
    /\ UNCHANGED <<rbuf, conn, incoming, outgoing, wpc, wbuf, nick, rooms, dpc, cur,
                   dline, bi, fault, script, werr, sent, out, written, applied, pre>>

\* range client.incoming ends: the channel is closed
IngestDone(c) ==
    /\ Running
    /\ ipc[c] = "recv"
    /\ incoming[c] = "closed"
    /\ ipc' = [ipc EXCEPT ![c] = "done"]
    /\ UNCHANGED <<rpc, rbuf, conn, incoming, outgoing, ibuf, wpc, wbuf, nick, rooms,
                   dpc, cur, dline, bi, fault, script, werr, sent, out, written, applied, pre>>

\* Mutant of CanSend: the channel has a buffer, a send does not wait for
\* Client.Write.
CanSend_Buffered(to) == outgoing[to] = "open"

\* A send  to.outgoing <- line  meets  s := range client.outgoing  of Client.Write.
CanSend(to) == outgoing[to] = "open" /\ wpc[to] = "recv"

Send(by, to, line) ==
    /\ wbuf' = [wbuf EXCEPT ![to] = line]
    /\ wpc' = [wpc EXCEPT ![to] = "write"]
    /\ out' = [out EXCEPT ![to] = Append(@, [by |-> by, line |-> line])]

\* A send on a closed channel panics, and the panic ends the process.
Panic(who, to) == fault' = <<who, to>>

\* Mutant of IngestReply: the connection is closed after the error reply.
IngestReply_Hangup(c) ==
    /\ Running
    /\ ipc[c] = "reply"
    /\ CanSend(c)
    /\ Send("ingest", c, InvalidCmd(ibuf[c].msg))
    /\ ipc' = [ipc EXCEPT ![c] = "recv"]
    /\ conn' = [conn EXCEPT ![c] = "closed"]
    /\ UNCHANGED <<rpc, rbuf, incoming, outgoing, ibuf, nick, rooms, dpc, cur,
                   dline, bi, fault, script, werr, sent, written, applied, pre>>

\* client.outgoing <- fmt.Sprintf("Error: Invalid cmd: %s", msg)
IngestReply(c) ==
    /\ Running
    /\ ipc[c] = "reply"
    /\ CanSend(c)
    /\ Send("ingest", c, InvalidCmd(ibuf[c].msg))
    /\ ipc' = [ipc EXCEPT ![c] = "recv"]
    /\ UNCHANGED <<rpc, rbuf, conn, incoming, outgoing, ibuf, nick, rooms, dpc, cur,
                   dline, bi, fault, script, werr, sent, written, applied, pre>>

IngestReplyPanic(c) ==
    /\ Running
    /\ ipc[c] = "reply"
    /\ outgoing[c] = "closed"
    /\ Panic("ingest", c)
    /\ UNCHANGED <<rpc, rbuf, conn, incoming, outgoing, ipc, ibuf, wpc, wbuf, nick,
                   rooms, dpc, cur, dline, bi, script, werr, sent, out, written, applied, pre>>

-----------------------------------------------------------------------------
(* Client.Write *)

\* Mutant of WriterWrite: the newest line is put in front of the older ones.
WriterWrite_NewestFirst(c) ==
    /\ Running
    /\ wpc[c] = "write"
    /\ written' = [written EXCEPT ![c] = IF conn[c] = "open" /\ ~werr[c]
                                         THEN <<wbuf[c]>> \o @ ELSE @]
    /\ wpc' = [wpc EXCEPT ![c] = "recv"]
    /\ UNCHANGED <<rpc, rbuf, conn, incoming, outgoing, ipc, ibuf, wbuf, nick, rooms,
                   dpc, cur, dline, bi, fault, script, werr, sent, out, applied, pre>>

\* Mutant of WriterWrite: Client.Write returns after the first line.
WriterWrite_Once(c) ==
    /\ Running
    /\ wpc[c] = "write"
    /\ written' = [written EXCEPT ![c] = Append(@, wbuf[c])]
    /\ wpc' = [wpc EXCEPT ![c] = "done"]
    /\ UNCHANGED <<rpc, rbuf, conn, incoming, outgoing, ipc, ibuf, wbuf, nick, rooms,
                   dpc, cur, dline, bi, fault, script, werr, sent, out, applied, pre>>

\* client.writer.WriteString(s); client.writer.Flush() : the errors are
\* dropped, so on a closed connection, or after an earlier failure of the
\* writer, the line is lost and the loop goes on.
WriterWrite(c) ==
    /\ Running
    /\ wpc[c] = "write"
    /\ written' = [written EXCEPT ![c] = IF conn[c] = "open" /\ ~werr[c]
                                         THEN Append(@, wbuf[c]) ELSE @]
    /\ wpc' = [wpc EXCEPT ![c] = "recv"]
    /\ UNCHANGED <<rpc, rbuf, conn, incoming, outgoing, ipc, ibuf, wbuf, nick, rooms,
                   dpc, cur, dline, bi, fault, script, werr, sent, out, applied, pre>>

\* WriteString or Flush fails although the connection has not been closed
\* here (the peer is gone and Client.Read has not seen it yet): the line is
\* lost, the bufio.Writer keeps the error, and the loop goes on.
WriterWriteFail(c) ==
    /\ Running
    /\ wpc[c] = "write"
    /\ conn[c] = "open"
    /\ ~werr[c]
    /\ werr' = [werr EXCEPT ![c] = TRUE]
    /\ wpc' = [wpc EXCEPT ![c] = "recv"]
    /\ UNCHANGED <<rpc, rbuf, conn, incoming, outgoing, ipc, ibuf, wbuf, nick, rooms,
                   dpc, cur, dline, bi, fault, script, sent, out, written, applied, pre>>

\* range client.outgoing ends: the channel is closed
WriterDone(c) ==
    /\ Running
    /\ wpc[c] = "recv"
    /\ outgoing[c] = "closed"
    /\ wpc' = [wpc EXCEPT ![c] = "done"]
    /\ UNCHANGED <<rpc, rbuf, conn, incoming, outgoing, ipc, ibuf, wbuf, nick, rooms,
                   dpc, cur, dline, bi, fault, script, werr, sent, out, written, applied, pre>>

-----------------------------------------------------------------------------
(* The dispatcher goroutine: for cmd := range server.incoming { cmd.Run(server) } *)

\* Mutant of NickRun: a value receiver, the nickname is set on a copy.
NickRun_ValueReceiver(cmd) == nick

\* NickCommand.Run
NickRun(cmd) == [nick EXCEPT ![cmd.client] = cmd.nick]

\* Mutant of AddClient: a client that is a member already is not added again.
AddClient_Dedup(members, client) ==
    IF \E i \in 1..Len(members) : members[i] = client THEN members
    ELSE Append(members, client)

\* Room.AddClient
AddClient(members, client) == Append(members, client)

\* Mutant of JoinRoom: a new Room is made for every join.
JoinRoom_Replace(name, client) == (name :> AddClient(<<>>, client)) @@ rooms

\* ChatServer.JoinRoom
JoinRoom(name, client) ==
    IF name \in DOMAIN rooms
    THEN [rooms EXCEPT ![name] = AddClient(@, client)]
    ELSE (name :> AddClient(<<>>, client)) @@ rooms

\* Mutant of BroadcastBranch: the nickname is tested before the room.
BroadcastBranch_NickFirst(name, from) ==
    IF nick[from] = "" THEN "nonick"
    ELSE IF name \notin DOMAIN rooms THEN "noroom"
    ELSE "send"

\* Mutant of BroadcastBranch: the nickname is not tested.
BroadcastBranch_NoNickGuard(name, from) ==
    IF name \notin DOMAIN rooms THEN "noroom" ELSE "send"

\* Mutant of BroadcastBranch: only a member of the room may send to it.
BroadcastBranch_MembersOnly(name, from) ==
    IF name \notin DOMAIN rooms THEN "noroom"
    ELSE IF \A i \in 1..Len(rooms[name]) : rooms[name][i] # from THEN "noroom"
    ELSE IF nick[from] = "" THEN "nonick"
    ELSE "send"

\* The branch ChatServer.Broadcast takes: its two guards, in their order.
BroadcastBranch(name, from) ==
    IF name \notin DOMAIN rooms THEN "noroom"
    ELSE IF nick[from] = "" THEN "nonick"
    ELSE "send"

\* Mutant of Recipients: the range loop starts at the second member.
Recipients_SkipFirst(name) == Tail(rooms[name])

\* The clients Broadcast's range loop visits.
Recipients(name) == rooms[name]

\* cmd.Run(server), up to the first channel send it makes.
Run(cmd) ==
    /\ nick' = IF cmd.kind = "nick" THEN NickRun(cmd) ELSE nick
    /\ rooms' = IF cmd.kind = "join" THEN JoinRoom(cmd.room, cmd.client) ELSE rooms
    /\ IF cmd.kind = "msg"
       THEN LET branch == BroadcastBranch(cmd.room, cmd.client)
            IN  IF branch = "noroom"
                THEN dpc' = "sendErr" /\ dline' = ErrNoRoom /\ bi' = 0
                ELSE IF branch = "nonick"
                THEN dpc' = "sendErr" /\ dline' = ErrNoNick /\ bi' = 0
                ELSE IF Len(Recipients(cmd.room)) = 0
                THEN dpc' = "recv" /\ dline' = "" /\ bi' = 0
                ELSE /\ dpc' = "bcast"
                     /\ dline' = msgFmt(cmd.room, nick[cmd.client], cmd.message)
                     /\ bi' = 1
       ELSE dpc' = "recv" /\ dline' = "" /\ bi' = 0

\* Mutant of DispatcherReady: commands are run without waiting for the one
\* before (go cmd.Run(server)).
DispatcherReady_Always == TRUE

\* The dispatcher stands at  range server.incoming : it takes the next
\* command only when cmd.Run has returned.
DispatcherReady == dpc = "recv"

\* server.incoming <- cmd  of an ingest goroutine meets  cmd := range
\* server.incoming ; the dispatcher then runs the command.
DispatcherRecv(c) ==
    /\ Running
    /\ DispatcherReady
    /\ ipc[c] = "fwd"
    /\ cur' = ibuf[c].cmd
    /\ applied' = [applied EXCEPT ![c] = Append(@, ibuf[c].cmd)]
    /\ ipc' = [ipc EXCEPT ![c] = "recv"]
    /\ pre' = [rooms |-> rooms, nick |-> nick, out |-> [x \in Clients |-> Len(out[x])]]
    /\ Run(ibuf[c].cmd)
    /\ UNCHANGED <<rpc, rbuf, conn, incoming, outgoing, ibuf, wpc, wbuf, fault, script, werr,
                   sent, out, written>>

\* from.outgoing <- "Error: ..." ; return
SendErr ==
    /\ Running
    /\ dpc = "sendErr"
    /\ CanSend(cur.client)
    /\ Send("dispatcher", cur.client, dline)
    /\ dpc' = "recv" /\ dline' = "" /\ bi' = 0
    /\ UNCHANGED <<rpc, rbuf, conn, incoming, outgoing, ipc, ibuf, nick, rooms, cur,
                   fault, script, werr, sent, written, applied, pre>>

SendErrPanic ==
    /\ Running
    /\ dpc = "sendErr"
    /\ outgoing[cur.client] = "closed"
    /\ Panic("dispatcher", cur.client)
    /\ UNCHANGED <<rpc, rbuf, conn, incoming, outgoing, ipc, ibuf, wpc, wbuf, nick,
                   rooms, dpc, cur, dline, bi, script, werr, sent, out, written, applied, pre>>

\* The member the range loop of Broadcast stands at.
Target == Recipients(cur.room)[bi]

\* client.outgoing <- msgFmt , one turn of the range loop
BcastSend ==
    /\ Running
    /\ dpc = "bcast"
    /\ CanSend(Target)
    /\ Send("dispatcher", Target, dline)
    /\ IF bi < Len(Recipients(cur.room))
       THEN bi' = bi + 1 /\ UNCHANGED <<dpc, dline>>
       ELSE dpc' = "recv" /\ dline' = "" /\ bi' = 0
    /\ UNCHANGED <<rpc, rbuf, conn, incoming, outgoing, ipc, ibuf, nick, rooms, cur,
                   fault, script, werr, sent, written, applied, pre>>

BcastPanic ==
    /\ Running
    /\ dpc = "bcast"
    /\ outgoing[Target] = "closed"
    /\ Panic("dispatcher", Target)
    /\ UNCHANGED <<rpc, rbuf, conn, incoming, outgoing, ipc, ibuf, wpc, wbuf, nick,
                   rooms, dpc, cur, dline, bi, script, werr, sent, out, written, applied, pre>>

-----------------------------------------------------------------------------
(* The specifications *)

DispatcherStep ==
    \/ \E c \in Clients : DispatcherRecv(c)
    \/ SendErr
    \/ SendErrPanic
    \/ BcastSend
    \/ BcastPanic

Server ==
    \/ \E c \in Clients : Accept(c)
    \/ \E c \in Clients : ReadFail(c)
    \/ \E c \in Clients : CloseIncoming(c)
    \/ \E c \in Clients : CloseOutgoing(c)
    \/ \E c \in Clients : IngestRecv(c)
    \/ \E c \in Clients : IngestDone(c)
    \/ \E c \in Clients : IngestReply(c)
    \/ \E c \in Clients : IngestReplyPanic(c)
    \/ \E c \in Clients : WriterWrite(c)
    \/ \E c \in Clients : WriterDone(c)
    \/ DispatcherStep

\* Spec: SpecClients connect and send any MaxLines lines of Lines between them.
Next ==
    \/ Server
    \/ \E c \in Clients : ReadAny(c)

Spec == Init /\ [][Next]_vars

\* SpecScn: three clients connect and each sends the lines of a scenario.
InitScn ==
    /\ script \in Scenarios
    /\ InitClients(DOMAIN script)
    /\ InitServer

NextScn ==
    \/ Server
    \/ \E c \in Clients : ReadScripted(c)

SpecScn == InitScn /\ [][NextScn]_vars

\* SpecDlg: the clients of a dialogue connect and each sends its lines.
InitDlg ==
    /\ script \in Dialogues
    /\ InitClients(DOMAIN script)
    /\ InitServer

SpecDlg == InitDlg /\ [][NextScn]_vars

\* SpecLive: as Spec, but no connection fails, so no Client.Read returns an
\* error and no channel is closed, and the Go scheduler lets every goroutine
\* that can take a step take one in the end; a transport write completes.
\* Whether a peer sends another line is up to the peer.
NextLive ==
    \/ \E c \in Clients : Accept(c)
    \/ \E c \in Clients : ReadAny(c)
    \/ \E c \in Clients : IngestRecv(c)
    \/ \E c \in Clients : IngestReply(c)
    \/ \E c \in Clients : WriterWrite(c)
    \/ \E c \in Clients : DispatcherRecv(c)
    \/ SendErr
    \/ BcastSend

Fairness ==
    /\ \A c \in SpecClients : WF_vars(IngestRecv(c))
    /\ \A c \in SpecClients : WF_vars(IngestReply(c))
    /\ \A c \in SpecClients : WF_vars(WriterWrite(c))
    /\ WF_vars(DispatcherStep)

SpecLive == Init /\ [][NextLive]_vars /\ Fairness

\* SpecWr: as Spec, and a transport write may fail on an open connection.
NextWr ==
    \/ Next
    \/ \E c \in Clients : WriterWriteFail(c)

SpecWr == Init /\ [][NextWr]_vars

-----------------------------------------------------------------------------
(* Properties *)

Count(seq, x) == Cardinality({i \in 1..Len(seq) : seq[i] = x})

Copies(n, line) == [i \in 1..n |-> line]

LinesOf(log) == [i \in 1..Len(log) |-> log[i].line]

\* The lines the dispatcher has pushed to c's outbound queue for the command cur.
DispatcherNew(c) ==
    LinesOf(SelectSeq(SubSeq(out[c], pre.out[c] + 1, Len(out[c])),
                      LAMBDA e : e.by = "dispatcher"))

\* The lines c's ingest goroutine has pushed to c's outbound queue.
IngestReplies(c) == LinesOf(SelectSeq(out[c], LAMBDA e : e.by = "ingest"))

\* The dispatcher has finished the command cur and waits for the next one.
Finished == dpc = "recv" /\ cur # Nil

\* cur is a message that passed both guards of Broadcast.
IsBroadcast ==
    /\ cur.kind = "msg"
    /\ cur.room \in DOMAIN pre.rooms
    /\ pre.nick[cur.client] # ""

BroadcastLine == cur.room \o " / " \o pre.nick[cur.client] \o ": " \o cur.message \o "\n"

Members == pre.rooms[cur.room]

\* What has been handed to Client.Write and is not in its hands any more.
Flushed(c) ==
    IF wpc[c] = "write" THEN SubSeq(LinesOf(out[c]), 1, Len(out[c]) - 1)
    ELSE LinesOf(out[c])

\* C1. Broadcast fan-out: when the dispatcher has finished a message that a
\* client with a nickname sent to an existing room, every client that joined
\* the room once has been handed exactly one line "<room> / <nick>: <text>\n"
\* for it and every client that is no member none; and what the outbound pump
\* of a connected client has been handed is written to its connection once, in
\* order, with nothing lost or repeated.
C1_BroadcastFanOut ==
    /\ (Finished /\ IsBroadcast) =>
          \A c \in Clients :
             /\ Count(Members, c) = 1 => DispatcherNew(c) = <<BroadcastLine>>
             /\ Count(Members, c) = 0 => DispatcherNew(c) = <<>>
    /\ \A c \in Clients : conn[c] = "open" => written[c] = Flushed(c)

\* Clients 1 and 2 joined lobby once each, 1 (a member) sent the message, and
\* both have it on their connections.
C1_Witness ==
    /\ Finished /\ IsBroadcast
    /\ cur.client = 1
    /\ Count(Members, 1) = 1 /\ Count(Members, 2) = 1
    /\ Count(written[1], "lobby / alice: hi all\n") = 1
    /\ Count(written[2], "lobby / alice: hi all\n") = 1
    /\ 3 \in Clients /\ rpc[3] # "none" /\ out[3] = <<>>

\* C2. A send to a client whose outbound queue is closed is a no-op: no
\* interleaving of a teardown with a push ends the process.
C2_SendToClosedIsNoOp == fault = NoFault

\* C3. Disconnection safety: a broadcast to a room with a disconnected member
\* is not cut short: it never ends with a member that is still connected
\* left without the line.
C3_DisconnectionSafety ==
    (dpc = "bcast" /\ fault # NoFault) =>
        \A c \in Clients :
            (conn[c] = "open" /\ Count(rooms[cur.room], c) >= 1)
                => Count(DispatcherNew(c), dline) >= 1

IsPrefix(a, b) == Len(a) <= Len(b) /\ SubSeq(b, 1, Len(a)) = a

\* The lines that match one of the three regular expressions.
Matching ==
    {line \in AllLines : \/ nickRegexp(line) # NoMatch
                         \/ joinRegexp(line) # NoMatch
                         \/ msgRegexp(line) # NoMatch}

Matches(line) == line \in Matching

\* The command of each line that matches, for client 0.
Parsed == [line \in Matching |-> parseCommand(0, line)]

\* The commands the lines of a client are parsed to, in the order of the lines.
Commands(c, lines) ==
    LET valid == SelectSeq(lines, Matches)
    IN  [i \in 1..Len(valid) |-> [Parsed[valid[i]] EXCEPT !.client = c]]

\* The nickname of the last nick command of cmds, "" if it has none.
LastNick(cmds) ==
    LET N == {i \in 1..Len(cmds) : cmds[i].kind = "nick"}
    IN  IF N = {} THEN "" ELSE cmds[CHOOSE i \in N : \A j \in N : j <= i].nick

\* C4. Per-client order: the commands the dispatcher has taken from a client
\* are the first commands of the lines the client sent, in the client's
\* order; the nickname a client has is the one of its last nick line the
\* dispatcher has reached, so a message is broadcast under the nickname of the
\* last nick line before it and is answered "Must set NICK first" only if no
\* nick line comes before it.
C4_PerClientOrder ==
    /\ \A c \in Clients :
          /\ IsPrefix(applied[c], Commands(c, sent[c]))
          /\ nick[c] = LastNick(applied[c])
    /\ dpc = "bcast" =>
          dline = cur.room \o " / " \o LastNick(applied[cur.client]) \o ": "
                      \o cur.message \o "\n"
    /\ (dpc = "sendErr" /\ dline = ErrNoNick) => LastNick(applied[cur.client]) = ""
    /\ dpc = "bcast" => LastNick(applied[cur.client]) # ""

\* A client sent nick carol and then msg lobby test, and the line went out
\* under the nickname carol.
C4_Witness ==
    \E c \in Clients :
        /\ sent[c] = <<"nick carol\n", "msg lobby test\n">>
        /\ applied[c] = Commands(c, sent[c])
        /\ \E d \in Clients : Count(written[d], "lobby / carol: test\n") = 1

\* C5. Missing-room guard: a message to a room that no join has created is
\* answered with exactly one line "Error: Room doesn't exist\n" to the sender,
\* nothing goes to any other client, and the rooms, the member lists and the
\* nicknames stay as they were (the room is not created).
C5_MissingRoomGuard ==
    (cur.kind = "msg" /\ cur.room \notin DOMAIN pre.rooms) =>
        /\ dpc \in {"sendErr", "recv"}
        /\ rooms = pre.rooms /\ nick = pre.nick
        /\ \A c \in Clients \ {cur.client} : DispatcherNew(c) = <<>>
        /\ dpc = "sendErr" => dline = ErrNoRoom /\ DispatcherNew(cur.client) = <<>>
        /\ dpc = "recv" => DispatcherNew(cur.client) = <<ErrNoRoom>>

C5_Witness ==
    /\ Finished
    /\ cur.kind = "msg" /\ cur.room \notin DOMAIN rooms
    /\ written[cur.client] = <<ErrNoRoom>>
    /\ \E c \in Clients \ {cur.client} : rpc[c] # "none" /\ out[c] = <<>>

\* C6. Missing-nickname guard: a message to an existing room from a client
\* without a nickname is answered with exactly one line "Error: Must set NICK
\* first\n" to the sender, no client gets a broadcast line, and the rooms, the
\* member lists and the nicknames stay as they were.
C6_MissingNickGuard ==
    (cur.kind = "msg" /\ cur.room \in DOMAIN pre.rooms /\ pre.nick[cur.client] = "") =>
        /\ dpc \in {"sendErr", "recv"}
        /\ rooms = pre.rooms /\ nick = pre.nick
        /\ \A c \in Clients \ {cur.client} : DispatcherNew(c) = <<>>
        /\ dpc = "sendErr" => dline = ErrNoNick /\ DispatcherNew(cur.client) = <<>>
        /\ dpc = "recv" => DispatcherNew(cur.client) = <<ErrNoNick>>

\* The sender joined the room and never sent a nick line.
C6_Witness ==
    /\ Finished
    /\ cur.kind = "msg" /\ cur.room \in DOMAIN rooms /\ nick[cur.client] = ""
    /\ Count(rooms[cur.room], cur.client) = 1
    /\ written[cur.client] = <<ErrNoNick>>
    /\ \E c \in Clients \ {cur.client} : rpc[c] # "none" /\ out[c] = <<>>

\* C7 as amended. Routing by membership only: a message to an existing room
\* from a sender with a nickname goes, one line per membership, to the members
\* of the room and to nobody else, whether or not the sender is a member (a
\* sender that never joined gets no copy); from a sender without a nickname it
\* is not broadcast at all, and the sender alone gets "Error: Must set NICK
\* first\n".
C7_RoutingByMembership ==
    (Finished /\ cur.kind = "msg" /\ cur.room \in DOMAIN pre.rooms) =>
        \A c \in Clients :
            DispatcherNew(c) =
                IF pre.nick[cur.client] # ""
                THEN Copies(Count(Members, c), BroadcastLine)
                ELSE IF c = cur.client THEN <<ErrNoNick>> ELSE <<>>

\* C (client 3) set a nickname, never joined lobby and sent its message: A and
\* B have the line on their connections, C has been handed nothing.
C7_Witness ==
    /\ Finished /\ IsBroadcast
    /\ cur.client = 3
    /\ Count(Members, 1) = 1 /\ Count(Members, 2) = 1 /\ Count(Members, 3) = 0
    /\ written[1] = <<"lobby / carol: test\n">>
    /\ written[2] = <<"lobby / carol: test\n">>
    /\ out[3] = <<>>

\* C7 as stated: in the end-to-end scenario, where C sends nothing but
\* msg lobby test, the message is broadcast to A and B, and C gets nothing.
C7_AsStated ==
    ( /\ Finished
      /\ cur.kind = "msg" /\ cur.client = 3
      /\ script[3] = <<"msg lobby test\n">>
      /\ cur.room \in DOMAIN pre.rooms
      /\ Count(Members, 1) = 1 /\ Count(Members, 2) = 1 ) =>
        /\ Len(DispatcherNew(1)) = 1
        /\ DispatcherNew(2) = DispatcherNew(1)
        /\ DispatcherNew(3) = <<>>

\* A line of client y is on its way through the server.
InFlight(y) == rpc[y] = "push" \/ ipc[y] \in {"reply", "fwd"} \/ wpc[y] = "write"

\* C8. Isolation of errors: an invalid line or an erroneous message of a
\* client x changes no nickname and no member list, pushes no line to another
\* client y, and its error reply never ends the process while a line of y is
\* on its way, also when x disconnects right after sending.
C8_ErrorIsolation ==
    /\ (cur.kind = "msg" /\ (cur.room \notin DOMAIN pre.rooms \/ pre.nick[cur.client] = "")) =>
          /\ rooms = pre.rooms /\ nick = pre.nick
          /\ \A y \in Clients \ {cur.client} : DispatcherNew(y) = <<>>
    /\ \A x \in Clients :
          (fault = <<"ingest", x>> \/ (fault = <<"dispatcher", x>> /\ dpc = "sendErr"))
              => \A y \in Clients \ {x} : ~InFlight(y)

\* The lines of c that its ingest goroutine has dealt with.
Handled(c) ==
    SubSeq(sent[c], 1, Len(sent[c]) - (IF rpc[c] = "push" THEN 1 ELSE 0)
                                   - (IF ipc[c] \in {"reply", "fwd"} THEN 1 ELSE 0))

Joins(c, r) == Cardinality({i \in 1..Len(applied[c]) :
                   applied[c][i].kind = "join" /\ applied[c][i].room = r})

\* C9. Protocol error reply: the ingest goroutine of a client has pushed to
\* the client's own outbound queue exactly one line "Error: Invalid cmd:
\* <line>" for each line it dealt with that matches no command, in order, and
\* the dispatcher has got from it exactly the commands of the lines that
\* match; the nicknames, the rooms and the member lists are those the commands
\* make, so a line that is no command changes none of them.
C9_ProtocolErrorReply ==
    \A c \in Clients :
        /\ LET bad == SelectSeq(Handled(c), LAMBDA l : ~Matches(l))
           IN  IngestReplies(c) = [i \in 1..Len(bad) |-> "Error: Invalid cmd: " \o bad[i]]
        /\ applied[c] = Commands(c, Handled(c))
        /\ ipc[c] = "reply" => ~Matches(ibuf[c].msg)
        /\ ipc[c] = "fwd" => Matches(ibuf[c].msg)
        /\ nick[c] = LastNick(applied[c])
        /\ \A r \in DOMAIN rooms : Count(rooms[r], c) = Joins(c, r)
        /\ \A i \in 1..Len(applied[c]) :
              applied[c][i].kind = "join" => applied[c][i].room \in DOMAIN rooms

\* A client sent a line that is no command and a line that is one: the first
\* is answered on its connection, the second is with the dispatcher.
C9_Witness ==
    \E c \in Clients :
        /\ sent[c] = <<"what\n", "join r\n">>
        /\ written[c] = <<"Error: Invalid cmd: what\n">>
        /\ Len(applied[c]) = 1
        /\ "r" \in DOMAIN rooms

\* C10. Single writer: the rooms, the member lists and the nicknames change
\* only in the step in which the dispatcher takes a command from the shared
\* queue; while a command is in progress no other command is taken and that
\* state does not change; and the dispatcher pushes lines only while a
\* command is in progress.
C10_SingleWriter ==
    [][ /\ (rooms' # rooms \/ nick' # nick) =>
              /\ dpc = "recv"
              /\ \E c \in Clients :
                    /\ ipc[c] = "fwd"
                    /\ cur' = ibuf[c].cmd
                    /\ applied' = [applied EXCEPT ![c] = Append(@, ibuf[c].cmd)]
        /\ dpc # "recv" =>
              applied' = applied /\ cur' = cur /\ rooms' = rooms /\ nick' = nick
        /\ \A c \in Clients :
              (Len(out'[c]) > Len(out[c]) /\ out'[c][Len(out'[c])].by = "dispatcher")
                  => dpc # "recv" ]_vars

\* A command is in progress while another client's command waits at the
\* shared queue.
C10_Witness ==
    /\ dpc \in {"sendErr", "bcast"}
    /\ \E c \in Clients : ipc[c] = "fwd" /\ c # cur.client
    /\ fault = NoFault

\* C11. Closed only by a read failure: the connection of a client is closed
\* exactly when its Client.Read has failed to read, its inbound queue exactly
\* when Client.Read has gone on to close it, its outbound queue exactly when
\* Client.Read has ended; so no error reply closes any of them, and while
\* Client.Read of a client reads, the client's ingest goroutine and its
\* Client.Write are still there to handle its next lines.
C11_ClosedOnlyByReadFailure ==
    \A c \in Clients :
        /\ conn[c] = "closed" <=> rpc[c] \in {"closeIn", "closeOut", "done"}
        /\ incoming[c] = "closed" <=> rpc[c] \in {"closeOut", "done"}
        /\ outgoing[c] = "closed" <=> rpc[c] = "done"
        /\ rpc[c] \in {"read", "push"} => ipc[c] \notin {"none", "done"} /\ wpc[c] \notin {"none", "done"}

\* A client was answered "Room doesn't exist" and "Invalid cmd", and the join
\* it sent after them has been run; its connection is open.
C11_Witness ==
    \E c \in Clients :
        /\ written[c] = <<ErrNoRoom, "Error: Invalid cmd: oops\n">>
        /\ Len(applied[c]) = 2
        /\ applied[c][2].kind = "join"
        /\ rooms = ("r" :> <<c>>)
        /\ conn[c] = "open" /\ incoming[c] = "open" /\ outgoing[c] = "open"
        /\ rpc[c] = "read"

\* A goroutine stands at a send or in a transport write.
Waiting ==
    \/ dpc # "recv"
    \/ \E c \in Clients : rpc[c] = "push" \/ ipc[c] \in {"reply", "fwd"} \/ wpc[c] = "write"

\* A step of a goroutine of the server other than reading from a connection.
InternalStep ==
    \/ \E c \in Clients : IngestRecv(c) \/ IngestReply(c) \/ WriterWrite(c)
    \/ DispatcherStep

\* C12. No deadlock and no lost line, when no connection fails and the
\* goroutines are scheduled fairly: whenever a goroutine stands at a send or
\* in a write some goroutine can take a step; the n-th line read from a
\* client is in the end taken by the dispatcher as a command or answered by
\* an Invalid-cmd reply; and each line pushed to a client's outbound queue
\* is in the end written to its connection, once and in the order pushed.
C12_NoDeadlockNoLoss ==
    /\ [](Waiting => ENABLED InternalStep)
    /\ [](\A c \in Clients : IsPrefix(written[c], LinesOf(out[c])))
    /\ \A c \in SpecClients : \A n \in 1..MaxLines :
          (Len(sent[c]) = n) ~> (Len(applied[c]) + Len(IngestReplies(c)) >= n)
    /\ \A c \in SpecClients : \A n \in 1..MaxLines :
          (Len(out[c]) = n) ~> (Len(written[c]) >= n)

\* All MaxLines lines have been read, a message among them has been broadcast,
\* and every line pushed has been written.
C12_Witness ==
    /\ LinesRead = MaxLines
    /\ \A c \in Clients : Len(applied[c]) + Len(IngestReplies(c)) = Len(sent[c])
    /\ \A c \in Clients : written[c] = LinesOf(out[c])
    /\ \E c \in Clients : written[c] = <<"r / bob: hello\n">>
    /\ ~Waiting

\* C13. Teardown on read failure: Client.Read closes the connection, then the
\* inbound queue, then the outbound queue; and once it has ended, the
\* client's ingest goroutine and its Client.Write can stop while the rest of
\* the server runs on: no goroutine has ended the process at one of the
\* queues this teardown closed.
C13_TeardownOnReadFailure ==
    \A c \in Clients :
        /\ outgoing[c] = "closed" => incoming[c] = "closed"
        /\ incoming[c] = "closed" => conn[c] = "closed"
        /\ rpc[c] = "done" => outgoing[c] = "closed"
        /\ rpc[c] = "done" => fault \notin {<<"ingest", c>>, <<"dispatcher", c>>}

\* C14. Write errors end that client's pumps: once a write or flush to a
\* client's connection has failed, its Client.Write takes no further line
\* from the client's outbound queue.
C14_WriteErrorTeardown ==
    \A c \in Clients : werr[c] => wpc[c] # "write"

\* The client the dispatcher is sending to.
PushTarget == IF dpc = "sendErr" THEN cur.client ELSE Target

\* C15 as stated: while the dispatcher handles a command it can always take
\* its next step, whatever the client's Client.Write is doing.
C15_AsStated == (Running /\ dpc # "recv") => ENABLED DispatcherStep

\* C15. The dispatcher waits at every push: while it handles a command it
\* can take a step exactly if the Client.Write of the client it is pushing to
\* stands at its receive, or that client's outbound queue is closed; and
\* until then it takes no command of any client.
C15_BlocksOnPush ==
    (Running /\ dpc # "recv") =>
        /\ (ENABLED DispatcherStep) <=>
              \/ outgoing[PushTarget] = "open" /\ wpc[PushTarget] = "recv"
              \/ outgoing[PushTarget] = "closed"
        /\ \A c \in Clients : ~ENABLED DispatcherRecv(c)

\* The dispatcher is in a broadcast and waits for a Client.Write that is in
\* a transport write, while another client's command waits at the shared
\* queue.
C15_Witness ==
    /\ Running
    /\ dpc = "bcast"
    /\ outgoing[Target] = "open" /\ wpc[Target] = "write"
    /\ ~ENABLED DispatcherStep
    /\ \E c \in Clients : c # cur.client /\ ipc[c] = "fwd"

\* The rooms of the join commands the dispatcher has taken.
JoinedRooms ==
    UNION {{applied[c][i].room : i \in {j \in 1..Len(applied[c]) : applied[c][j].kind = "join"}} :
           c \in Clients}

\* C16. Rooms are made by the first join and only grow: the rooms of the
\* server are exactly the rooms of the join commands taken so far; no step
\* removes a room or changes the members a room has, a step adds at most one
\* member at the end of one list, and it is the step that takes a join
\* command for that room from that client; a step that takes a nick or a msg
\* command leaves rooms and member lists alone.
C16_RoomsAdditive ==
    /\ [](DOMAIN rooms = JoinedRooms)
    /\ [][ /\ \A r \in DOMAIN rooms : r \in DOMAIN rooms' /\ IsPrefix(rooms[r], rooms'[r])
           /\ rooms' # rooms =>
                 /\ applied' # applied
                 /\ cur'.kind = "join"
                 /\ DOMAIN rooms' = DOMAIN rooms \cup {cur'.room}
                 /\ rooms'[cur'.room] =
                        (IF cur'.room \in DOMAIN rooms THEN rooms[cur'.room] ELSE <<>>)
                            \o <<cur'.client>>
                 /\ \A r \in DOMAIN rooms \ {cur'.room} : rooms'[r] = rooms[r]
           /\ (applied' # applied /\ cur'.kind \in {"nick", "msg"}) => rooms' = rooms
           /\ (applied' # applied /\ cur'.kind = "join") => rooms' # rooms ]_vars

\* The lobby was made by B's first join and has got B's second join and A's
\* join; B has disconnected since and the room is as it was.
C16_Witness ==
    /\ DOMAIN rooms = {"lobby"}
    /\ rooms["lobby"] = <<2, 2, 1>>
    /\ rpc[2] = "done" /\ ipc[2] = "done" /\ wpc[2] = "done"
    /\ Len(applied[1]) >= 2
    /\ Running

\* C17. Duplicate membership: a client is in the member list of a room once
\* for each of its join commands for the room the dispatcher has taken; and
\* a broadcast hands each client one copy of the line for each time it was
\* in the list when the message was taken: as many as the entries the range
\* loop has passed while it runs, all of them when it has finished.
C17_DuplicateMembership ==
    /\ \A r \in DOMAIN rooms : \A c \in Clients : Count(rooms[r], c) = Joins(c, r)
    /\ (Running /\ dpc = "bcast") =>
          \A c \in Clients :
              DispatcherNew(c) = Copies(Count(SubSeq(Members, 1, bi - 1), c), dline)
    /\ (Finished /\ IsBroadcast) =>
          \A c \in Clients : DispatcherNew(c) = Copies(Count(Members, c), BroadcastLine)

\* B joined the lobby twice and A once before A's first message: B has been
\* sent the line twice and A once.
C17_Witness ==
    /\ Finished /\ IsBroadcast
    /\ cur.message = "one"
    /\ Count(Members, 2) = 2 /\ Count(Members, 1) = 1
    /\ written[2] = <<"lobby / alice: one\n", "lobby / alice: one\n">>
    /\ Count(written[1], "lobby / alice: one\n") = 1

\* The room of the message cur was missing when the dispatcher took it.
RoomMissing == cur.room \notin DOMAIN pre.rooms

\* The room was there and the sender had no nickname.
NickMissing == ~RoomMissing /\ pre.nick[cur.client] = ""

\* C18. Guard precedence and exclusivity: for a message the dispatcher is
\* in the error reply exactly if the room was missing or, the room being
\* there, the sender had no nickname, and in the range loop only if neither;
\* every line it pushes for the message is "Room doesn't exist" to the sender
\* if the room was missing (whatever the nickname), "Must set NICK first" to
\* the sender if only the nickname was, and the broadcast line otherwise; an
\* error is one line, so a message never gives an error line and a broadcast
\* line, nor two error lines.
C18_GuardPrecedence ==
    cur.kind = "msg" =>
        /\ dpc = "sendErr" => (RoomMissing \/ NickMissing)
        /\ dpc = "sendErr" => dline = (IF RoomMissing THEN ErrNoRoom ELSE ErrNoNick)
        /\ dpc = "bcast" => (~RoomMissing /\ ~NickMissing /\ dline = BroadcastLine)
        /\ \A c \in Clients : \A i \in 1..Len(DispatcherNew(c)) :
              DispatcherNew(c)[i] = (IF RoomMissing THEN ErrNoRoom
                                    ELSE IF NickMissing THEN ErrNoNick
                                    ELSE BroadcastLine)
        /\ (RoomMissing \/ NickMissing) =>
              /\ \A c \in Clients \ {cur.client} : DispatcherNew(c) = <<>>
              /\ Len(DispatcherNew(cur.client)) <= 1
              /\ Finished => Len(DispatcherNew(cur.client)) = 1
        /\ BroadcastLine \notin {ErrNoRoom, ErrNoNick}

\* A client without a nickname sent a message to a room that is not there:
\* it has got "Room doesn't exist" and nothing else.
C18_Witness ==
    /\ Finished
    /\ cur.kind = "msg" /\ RoomMissing /\ pre.nick[cur.client] = "" /\ nick[cur.client] = ""
    /\ written[cur.client] = <<ErrNoRoom>>
    /\ out[cur.client] = <<[by |-> "dispatcher", line |-> ErrNoRoom]>>

\* The lines the dispatcher has pushed to c's outbound queue.
DispatcherLines(c) == LinesOf(SelectSeq(out[c], LAMBDA e : e.by = "dispatcher"))

\* The lines of messages the dispatcher has broadcast or is broadcasting.
BroadcastLines ==
    UNION {{DispatcherLines(c)[i] : i \in 1..Len(DispatcherLines(c))} : c \in Clients}
        \ {ErrNoRoom, ErrNoNick}

\* Some copy of k comes before some copy of l in seq.
Before(seq, k, l) == \E i \in 1..Len(seq) : \E j \in i + 1..Len(seq) : seq[i] = k /\ seq[j] = l

\* C19. Same order at every recipient: if a client was pushed, or written, a
\* line of one message before a line of another, no client (nor that one)
\* was pushed or written a line of the second before a line of the first;
\* the dispatcher pushes only the line of the message it is handling, and it
\* takes the next command only when the range loop has ended, every member
\* having been handed its copies.
C19_SameOrder ==
    /\ [](\A k \in BroadcastLines : \A l \in BroadcastLines \ {k} :
            \A c \in Clients : \A d \in Clients :
                /\ Before(DispatcherLines(c), k, l) => ~Before(DispatcherLines(d), l, k)
                /\ Before(written[c], k, l) => ~Before(written[d], l, k))
    /\ [][ /\ \A c \in Clients :
                 (Len(out'[c]) > Len(out[c]) /\ out'[c][Len(out'[c])].by = "dispatcher")
                     => (dpc # "recv" /\ cur' = cur /\ out'[c][Len(out'[c])].line = dline)
           /\ applied' # applied =>
                 /\ dpc = "recv"
                 /\ IsBroadcast =>
                       \A c \in Clients :
                           DispatcherNew(c) = Copies(Count(Members, c), BroadcastLine) ]_vars

\* A and B are both in the lobby and each has been written the lines of two
\* messages, in the same order.
C19_Witness ==
    \E k \in BroadcastLines : \E l \in BroadcastLines \ {k} :
        /\ Before(written[1], k, l)
        /\ Before(written[2], k, l)
        /\ cur.client = 1 /\ cur.message = "one"

\* The lines the i-th line of client c can make the server send back to c:
\* the Invalid-cmd reply if it is no command; for a message one of the two
\* errors or the line of the message under the nickname c has then.
Replies(c, i) ==
    LET l == sent[c][i]
    IN  IF ~Matches(l) THEN {"Error: Invalid cmd: " \o l}
        ELSE IF Parsed[l].kind = "msg"
        THEN {ErrNoRoom, ErrNoNick,
              Parsed[l].room \o " / " \o LastNick(Commands(c, SubSeq(sent[c], 1, i)))
                  \o ": " \o Parsed[l].message \o "\n"}
        ELSE {}

\* log has a reply to the j-th line of c before a reply to its i-th line.
ReplyBefore(c, log, j, i) ==
    \E p \in 1..Len(log) : \E q \in p + 1..Len(log) :
        log[p] \in Replies(c, j) /\ log[q] \in Replies(c, i)

\* C20 as stated: no client is pushed or written a reply to a later line of
\* its own before a reply to an earlier one.
C20_AsStated ==
    \A c \in Clients : \A i \in 1..Len(sent[c]) : \A j \in i + 1..Len(sent[c]) :
        ~ReplyBefore(c, LinesOf(out[c]), j, i) /\ ~ReplyBefore(c, written[c], j, i)

\* C20. Replies of one goroutine follow the client's line order: a client is
\* pushed or written a reply to a later line of its own before a reply to
\* an earlier one only if the earlier line is a command, which the
\* dispatcher answers, and the later one is no command, which the client's
\* ingest goroutine answers.
C20_RepliesInOrder ==
    \A c \in Clients : \A i \in 1..Len(sent[c]) : \A j \in i + 1..Len(sent[c]) :
        (ReplyBefore(c, LinesOf(out[c]), j, i) \/ ReplyBefore(c, written[c], j, i))
            => (Matches(sent[c][i]) /\ ~Matches(sent[c][j]))

\* A has been written the Invalid-cmd reply to its fourth line, then the
\* line of its first message (its third line), then that of its second.
C20_Witness ==
    /\ Len(sent[1]) = 5
    /\ written[1] = <<"Error: Invalid cmd: oops\n", "lobby / alice: one\n",
                      "lobby / alice: two\n">>

====
